---------------------------- MODULE Spec2Model ----------------------------
(***************************************************************************)
(* Per-owner conversational memory of aven-labs/CORE:                      *)
(*   - MemoryManager (brain/src/memory/memory_manager.py): the tiering     *)
(*     controller over the short-term buffer (STM, a Supabase table) and   *)
(*     the long-term service;                                              *)
(*   - MemoryService (brain/src/memory/ltm.py): extraction, vector store,  *)
(*     graph mirror, bulk delete;                                          *)
(*   - VectorManager (ltm_core/vector_manager.py): FAISS index + metadata  *)
(*     list + the two files that persist them;                             *)
(*   - MemoryRetriever (ltm_core/retriever.py): a second VectorManager on  *)
(*     the same files, plus graph expansion;                               *)
(*   - GraphManager (ltm_core/neo4j_db.py): the User/Memory/Tag/Entity     *)
(*     graph.                                                              *)
(*                                                                         *)
(* Numbers.  Importance and confidence are fixed point with Scale = 1.0;   *)
(* similarities are fixed point with SimScale = 1.0; time is counted in    *)
(* whole days; embeddings are points with integer coordinates and the      *)
(* FAISS IndexFlatL2 distance is the squared Euclidean distance.           *)
(***************************************************************************)
EXTENDS Integers, Sequences, FiniteSets, Bags, TLC

VARIABLES
    rows,       \* conversation_history rows of the owner, in timestamp order
    clock,      \* the database's CURRENT_TIMESTAMP, one tick per insert
    tasks,      \* the consolidation threads started so far, in start order
    appended,   \* number of messages handed to add_messages so far
    ltmUp,      \* MemoryManager.ltm is not None
    lastCall,   \* what the last front-end call returned to its caller
    svc,        \* MemoryService.vector_manager (index + metadata in memory)
    ret,        \* MemoryRetriever.vector_manager (a second instance)
    disk,       \* data/faiss/<owner>/: directory, index file, metadata file
    graph,      \* the Neo4j graph
    tags,       \* user_tags rows of the owner
    now,        \* time.time(), in days
    nextId,     \* source of uuid4() values
    steps       \* calls made to the long-term service so far

vars == <<rows, clock, tasks, appended, ltmUp, lastCall,
          svc, ret, disk, graph, tags, now, nextId, steps>>

stmVars == <<rows, clock, tasks, appended, ltmUp>>
ltmVars == <<svc, ret, disk, graph, tags, nextId, steps>>

-----------------------------------------------------------------------------
(* Bounds of the model *)

MaxMsgs == 30       \* messages handed to add_messages in one behaviour
MaxBatch == 2       \* messages in one add_messages call
MaxSteps == 4       \* direct calls to the long-term service in one behaviour
MaxLate == 2        \* messages appended on top of a full buffer in one behaviour

(* Program constants *)

ConsolidateAt == 30     \* memory_manager.py:44
LtmSlice == 15          \* memory_manager.py:45
StmKeep == 15           \* memory_manager.py:46
ReadLimit == 100        \* memory_manager.py:42

-----------------------------------------------------------------------------
(* Sequence helpers *)

Last(s, n) == IF Len(s) <= n THEN s ELSE SubSeq(s, Len(s) - n + 1, Len(s))

First(s, n) == IF Len(s) <= n THEN s ELSE SubSeq(s, 1, n)

Ids(s) == [k \in 1..Len(s) |-> s[k].id]

Range(s) == {s[k] : k \in 1..Len(s)}

-----------------------------------------------------------------------------
(* SupabaseService: the conversation_history table.  A row is [id, ts];    *)
(* a message that was never stored carries ts = 0 (no "timestamp" key) and *)
(* gets the database default, CURRENT_TIMESTAMP, when it is inserted.      *)

\* One insert of save_messages' loop: the row goes where its timestamp puts it.
insert_row(table, m, ts) ==
    LET before == SelectSeq(table, LAMBDA r : r.ts <= ts)
        after == SelectSeq(table, LAMBDA r : r.ts > ts)
    IN before \o <<[id |-> m.id, ts |-> ts]>> \o after

RECURSIVE save_messages(_, _, _)
save_messages(table, clk, msgs) ==
    IF msgs = <<>> THEN [rows |-> table, clock |-> clk]
    ELSE LET m == Head(msgs)
             ts == IF m.ts = 0 THEN clk + 1 ELSE m.ts
         IN save_messages(insert_row(table, m, ts), clk + 1, Tail(msgs))

\* order by timestamp desc, limit, reversed: the newest `limit` rows, oldest first.
get_messages(table, limit) == Last(table, limit)

clear_messages(table) == <<>>

-----------------------------------------------------------------------------
(* MemoryManager.add_messages *)

NewMessages(n) == [k \in 1..n |-> [id |-> appended + k, ts |-> 0]]

\* the threshold read as "more than 30"
overflows_late(all_messages) == Len(all_messages) > ConsolidateAt

overflows(all_messages) == Len(all_messages) >= ConsolidateAt

ltm_slice(all_messages) == First(all_messages, LtmSlice)

stm_slice(all_messages) == Last(all_messages, StmKeep)

\* the thread joined before add_messages returns
start_joined_ltm(ltm_messages, stm_messages, n) ==
    [ltm_messages |-> ltm_messages, stm_messages |-> stm_messages,
     pc |-> "done", i |-> Len(stm_messages) + 1, outcome |-> "stored",
     startRows |-> rows, startAppended |-> appended + n]

\* threading.Thread(target=start_background_ltm, daemon=True).start():
\* the thread exists and has not run a step when add_messages returns.
\* startRows and startAppended remember the buffer and the number of messages
\* appended when the thread was started.
start_background_ltm(ltm_messages, stm_messages, n) ==
    [ltm_messages |-> ltm_messages, stm_messages |-> stm_messages,
     pc |-> "process", i |-> 1, outcome |-> "none",
     startRows |-> rows, startAppended |-> appended + n]

NoCall ==
    [op |-> "none", raised |-> FALSE, started |-> 0, batch |-> <<>>,
     embedOk |-> TRUE, graphOk |-> TRUE, returned |-> <<>>, found |-> 0,
     merged |-> 0, skipped |-> 0, again |-> FALSE,
     user |-> "u1", ids |-> {}, related |-> {},
     context |-> <<>>, sorted_memories |-> <<>>,
     tagOk |-> TRUE, ltmOk |-> TRUE, ok |-> TRUE]

add_messages(n) ==
    /\ n >= 1
    /\ appended + n <= MaxMsgs
    /\ LET messages_to_store == NewMessages(n)
           current_messages == get_messages(rows, ReadLimit)
           all_messages == current_messages \o messages_to_store
       IN IF overflows(all_messages)
          THEN IF ltmUp /\ ltm_slice(all_messages) # <<>>
               THEN /\ tasks' = Append(tasks,
                           start_background_ltm(ltm_slice(all_messages),
                                                stm_slice(all_messages), n))
                    /\ UNCHANGED <<rows, clock>>
               ELSE UNCHANGED <<rows, clock, tasks>>
          ELSE LET s == save_messages(rows, clock, messages_to_store)
               IN /\ rows' = s.rows
                  /\ clock' = s.clock
                  /\ UNCHANGED tasks
    /\ appended' = appended + n
    /\ lastCall' = [NoCall EXCEPT !.op = "add_messages",
                                  !.started = Len(tasks') - Len(tasks)]
    /\ UNCHANGED <<ltmUp, svc, ret, disk, graph, tags, now, nextId, steps>>

-----------------------------------------------------------------------------
(* The embedding provider.  Texts are the summaries the extraction agent   *)
(* writes and the queries the user sends; Embedding is the provider's      *)
(* answer for each.  The names give the squared distance to "a0".          *)

Texts == {"a0", "a100", "a101", "a200", "a202", "a676", "z"}

Embedding(t) ==
    CASE t = "a0" -> <<0, 0>>
      [] t = "a100" -> <<10, 0>>
      [] t = "a101" -> <<10, 1>>
      [] t = "a200" -> <<10, 10>>
      [] t = "a202" -> <<11, 9>>
      [] t = "a676" -> <<26, 0>>
      [] OTHER -> <<40, 0>>

\* What the extraction agent attaches to a summary.
TagOf(t) == IF t \in {"a0", "a100", "a101"} THEN "pref"
            ELSE IF t = "z" THEN "work" ELSE "habit"

EntitiesOf(t) ==
    CASE t = "a0" -> {"jazz"}
      [] t = "a100" -> {"jazz"}
      [] t = "a101" -> {"music"}
      [] t = "a200" -> {"jazz", "piano"}
      [] t = "a202" -> {"piano"}
      [] OTHER -> {}

Scale == 10000          \* 1.0 of an importance or a confidence
SimScale == 1000        \* 1.0 of a similarity

ImportanceOf(t) == IF t = "z" THEN 0 ELSE 3000

ConfidenceOf(t) == IF t = "z" THEN Scale ELSE 8000

\* MemoryAgent._parse_response gives every memory a fresh uuid4 and the
\* current time; TaggedMemories keeps them grouped by tag.
MemoryItem(t, id, time) ==
    [id |-> id, summary |-> t, tag |-> TagOf(t),
     importance |-> ImportanceOf(t), confidence |-> ConfidenceOf(t),
     entities |-> EntitiesOf(t), timestamp |-> time]

extract_memories(texts, firstId, time) ==
    [k \in 1..Len(texts) |-> MemoryItem(texts[k], firstId + k, time)]

-----------------------------------------------------------------------------
(* VectorManager: similarity *)

DuplicateThreshold == 900   \* SIMILARITY_THRESHOLDS["duplicate"] = 0.90
MergeThreshold == 800       \* SIMILARITY_THRESHOLDS["merge"] = 0.80
MaxDistance == 1000         \* _l2_to_similarity(max_distance=1000.0)

Min2(a, b) == IF a <= b THEN a ELSE b

Max2(a, b) == IF a >= b THEN a ELSE b

\* faiss.IndexFlatL2: squared Euclidean distance
L2(u, v) == (u[1] - v[1]) * (u[1] - v[1]) + (u[2] - v[2]) * (u[2] - v[2])

\* the normalised distance taken for the similarity
_l2_to_distance(distance) == Min2((distance * SimScale) \div MaxDistance, SimScale)

_l2_to_similarity(distance) ==
    LET normalized == Min2((distance * SimScale) \div MaxDistance, SimScale)
    IN SimScale - normalized

\* index.search(e, k): positions by increasing distance, lowest position
\* first among equals; fewer than k when the index holds fewer vectors
\* (FAISS pads with -1, which the callers skip or never read).
Closer(vecs, e, a, b) ==
    \/ L2(vecs[a], e) < L2(vecs[b], e)
    \/ L2(vecs[a], e) = L2(vecs[b], e) /\ a < b

RECURSIVE index_search_from(_, _, _, _)
index_search_from(vecs, e, k, left) ==
    IF k = 0 \/ left = {} THEN <<>>
    ELSE LET best == CHOOSE a \in left : \A b \in left \ {a} : Closer(vecs, e, a, b)
         IN <<best>> \o index_search_from(vecs, e, k - 1, left \ {best})

index_search(vecs, e, k) == index_search_from(vecs, e, k, 1..Len(vecs))

-----------------------------------------------------------------------------
(* VectorManager: importance and confidence *)

Alpha == 8              \* alpha = 0.08, in hundredths
DecayPerDay == 9950     \* exp(-0.005), times Scale
ConfRate == 5           \* 0.05, in hundredths
DefaultMatch == 800     \* match_score = 0.8
ClampLow == 500         \* 0.05
ClampHigh == 9800       \* 0.98

\* math.exp(-0.005 * days), times Scale; above 1.0 when last_accessed lies
\* in the future
RECURSIVE Decay(_)
Decay(days) ==
    IF days = 0 THEN Scale
    ELSE IF days < 0 THEN (Scale * Scale) \div Decay(0 - days)
    ELSE IF days % 2 = 1 THEN (Decay(days - 1) * DecayPerDay) \div Scale
    ELSE (Decay(days \div 2) * Decay(days \div 2)) \div Scale

\* the lower limit forgotten
ClampHighOnly(x) == Min2(ClampHigh, x)

Clamp(x) == Min2(ClampHigh, Max2(ClampLow, x))

\* _update_importance(memory, recalled): reinforcement when recalled, then
\* the decay since last_accessed
_update_importance(memory, recalled, time) ==
    LET imp0 == memory.importance
        imp1 == IF recalled
                THEN imp0 + (Alpha * (Scale - imp0) * (Scale - imp0)) \div (100 * Scale)
                ELSE imp0
        days_since == time - memory.last_accessed
        imp2 == (imp1 * Decay(days_since)) \div Scale
    IN [memory EXCEPT !.importance = Clamp(imp2), !.last_accessed = time]

\* _update_confidence(memory, match_score, confirmed): the decay since
\* last_accessed, then the evidence or the penalty
_update_confidence(memory, match_score, confirmed, time) ==
    LET conf0 == memory.confidence
        dt_days == time - memory.last_accessed
        conf1 == (conf0 * Decay(dt_days)) \div Scale
        conf2 == IF confirmed
                 THEN conf1 + ((Scale - conf1) * ConfRate * match_score)
                                  \div (100 * SimScale)
                 ELSE (conf1 * (100 * SimScale - ConfRate * (SimScale - match_score)))
                          \div (100 * SimScale)
    IN [memory EXCEPT !.confidence = Clamp(conf2), !.last_accessed = time]

\* the pair of steps every recall makes, in the order the code makes them,
\* both flags at their default True
reinforce(memory, match_score, time) ==
    _update_confidence(_update_importance(memory, TRUE, time), match_score, TRUE, time)

-----------------------------------------------------------------------------
(* VectorManager: the store.  A VectorManager is [hasIndex, vecs,          *)
(* metadata]: self.index (None, or the vectors in insertion order) and     *)
(* self.metadata.  The owner's directory is [dir, hasIndex, index,         *)
(* hasMeta, meta]: whether it exists, and the two files in it.             *)

EmptyVm == [hasIndex |-> FALSE, vecs |-> <<>>, metadata |-> <<>>]

EmptyDisk == [dir |-> FALSE, hasIndex |-> FALSE, index |-> <<>>,
              hasMeta |-> FALSE, meta |-> <<>>]

\* __init__: os.makedirs(base_path), then _load_index and _load_metadata,
\* each looking only at its own file
vm_init(dk) ==
    [hasIndex |-> dk.hasIndex, vecs |-> IF dk.hasIndex THEN dk.index ELSE <<>>,
     metadata |-> IF dk.hasMeta THEN dk.meta ELSE <<>>]

makedirs(dk) == [dk EXCEPT !.dir = TRUE]

\* faiss.write_index(self.index, self.index_path), when self.index is set
_save_index(vm, dk) ==
    IF vm.hasIndex THEN [dk EXCEPT !.hasIndex = TRUE, !.index = vm.vecs] ELSE dk

\* pickle.dump(self.metadata, open(self.meta_path, "wb"))
_save_metadata(vm, dk) == [dk EXCEPT !.hasMeta = TRUE, !.meta = vm.metadata]

\* open(..., "wb") and faiss.write_index raise when the directory is gone
can_write(dk) == dk.dir

\* FlattenedMemory.from_memory_item(m, tag, user_id).to_dict()
from_memory_item(m) ==
    [id |-> m.id, summary |-> m.summary, tag |-> m.tag,
     importance |-> m.importance, confidence |-> m.confidence,
     entities |-> m.entities, last_accessed |-> m.timestamp]

\* the duplicate comparison made strict
classify_open(similarity) ==
    IF similarity > DuplicateThreshold THEN "duplicate"
    ELSE IF similarity >= MergeThreshold THEN "merge"
    ELSE "new"

\* the two comparisons of add_memories' loop
classify(similarity) ==
    IF similarity >= DuplicateThreshold THEN "duplicate"
    ELSE IF similarity >= MergeThreshold THEN "merge"
    ELSE "new"

\* the merge branch with the candidate's entities overwriting the record's
merge_replacing(existing, flat_mem, similarity, time) ==
    [reinforce(existing, similarity, time) EXCEPT !.entities = flat_mem.entities]

\* the merge branch, applied to metadata[idx]
merge_into(existing, flat_mem, similarity, time) ==
    [reinforce(existing, similarity, time)
        EXCEPT !.entities = existing.entities \cup flat_mem.entities]

\* One pass of the loop with the merge branch's `continue` missing: the
\* merged candidate is stored as well.
add_candidate_fallthrough(acc, vecs, flat_mem, time) ==
    IF acc.raised THEN acc
    ELSE IF Len(acc.metadata) > 0
    THEN LET hit == index_search(vecs, Embedding(flat_mem.summary), 1)
             similarity == IF hit = <<>> THEN 0
                           ELSE _l2_to_similarity(
                                    L2(vecs[hit[1]], Embedding(flat_mem.summary)))
             class == classify(similarity)
         IN IF class = "duplicate"
            THEN [acc EXCEPT !.skipped = @ + 1]
            ELSE IF class = "merge"
            THEN IF hit[1] > Len(acc.metadata)
                 THEN [acc EXCEPT !.raised = TRUE]
                 ELSE [acc EXCEPT
                         !.metadata[hit[1]] =
                             merge_into(@, flat_mem, similarity, time),
                         !.merged = @ + 1,
                         !.new_memories = Append(@, flat_mem)]
            ELSE [acc EXCEPT !.new_memories = Append(@, flat_mem)]
    ELSE [acc EXCEPT !.new_memories = Append(@, flat_mem)]

\* One pass of add_memories' loop.  acc is [metadata, new_memories, merged,
\* skipped, raised]; vecs is self.index, which the loop only reads.
add_candidate(acc, vecs, flat_mem, time) ==
    IF acc.raised THEN acc
    ELSE IF Len(acc.metadata) > 0
    THEN LET hit == index_search(vecs, Embedding(flat_mem.summary), 1)
             similarity == IF hit = <<>> THEN 0
                           ELSE _l2_to_similarity(
                                    L2(vecs[hit[1]], Embedding(flat_mem.summary)))
             class == classify(similarity)
         IN IF class = "duplicate"
            THEN [acc EXCEPT !.skipped = @ + 1]
            ELSE IF class = "merge"
            THEN IF hit[1] > Len(acc.metadata)
                 THEN [acc EXCEPT !.raised = TRUE]     \* IndexError
                 ELSE [acc EXCEPT
                         !.metadata[hit[1]] =
                             merge_into(@, flat_mem, similarity, time),
                         !.merged = @ + 1]
            ELSE [acc EXCEPT !.new_memories = Append(@, flat_mem)]
    ELSE [acc EXCEPT !.new_memories = Append(@, flat_mem)]

RECURSIVE add_loop(_, _, _, _)
add_loop(acc, vecs, flattened, time) ==
    IF flattened = <<>> THEN acc
    ELSE add_loop(add_candidate(acc, vecs, Head(flattened), time),
                  vecs, Tail(flattened), time)

\* What add_memories leaves behind and hands back: the VectorManager, the
\* directory, the returned records, the records it appended in memory,
\* the counters it prints, whether it raised and whether it got embeddings.
AddResult(vm, dk, returned, created, merged, skipped, raised, embedded) ==
    [vm |-> vm, disk |-> dk, returned |-> returned, created |-> created,
     merged |-> merged, skipped |-> skipped, raised |-> raised,
     embedded |-> embedded]

\* after the loop: index.add, metadata.extend, _save_index, _save_metadata
add_store(vm, dk, acc) ==
    LET new == acc.new_memories
        vm1 == [hasIndex |-> TRUE,
                vecs |-> vm.vecs \o [k \in 1..Len(new) |-> Embedding(new[k].summary)],
                metadata |-> acc.metadata \o new]
    IN IF acc.raised
       THEN AddResult([vm1 EXCEPT !.vecs = vm.vecs, !.metadata = acc.metadata],
                      dk, <<>>, <<>>, acc.merged, acc.skipped, TRUE, TRUE)
       ELSE IF new # <<>>
       THEN IF can_write(dk)
            THEN AddResult(vm1, _save_metadata(vm1, _save_index(vm1, dk)),
                           new, new, acc.merged, acc.skipped, FALSE, TRUE)
            ELSE AddResult(vm1, dk, <<>>, new, acc.merged, acc.skipped, TRUE, TRUE)
       ELSE IF can_write(dk)
            THEN AddResult(vm1, _save_metadata(vm1, dk),
                           <<>>, <<>>, acc.merged, acc.skipped, FALSE, TRUE)
            ELSE AddResult(vm1, dk, <<>>, <<>>, acc.merged, acc.skipped, TRUE, TRUE)

\* add_memories with the index created before the embeddings are looked at
add_memories_index_first(vm, dk, tagged_memories, embedOk, time) ==
    LET flattened == [k \in 1..Len(tagged_memories) |->
                          from_memory_item(tagged_memories[k])]
    IN IF flattened = <<>>
       THEN AddResult(vm, dk, <<>>, <<>>, 0, 0, FALSE, FALSE)
       ELSE IF ~embedOk
       THEN AddResult([vm EXCEPT !.hasIndex = TRUE], dk, <<>>, <<>>, 0, 0, FALSE, FALSE)
       ELSE add_store(vm, dk,
                add_loop([metadata |-> vm.metadata, new_memories |-> <<>>,
                          merged |-> 0, skipped |-> 0, raised |-> FALSE],
                         vm.vecs, flattened, time))

\* VectorManager.add_memories(tagged_memories); embedOk: embed_query
\* returned the embeddings (not None)
add_memories(vm, dk, tagged_memories, embedOk, time) ==
    LET flattened == [k \in 1..Len(tagged_memories) |->
                          from_memory_item(tagged_memories[k])]
    IN IF flattened = <<>> \/ ~embedOk
       THEN AddResult(vm, dk, <<>>, <<>>, 0, 0, FALSE, FALSE)
       ELSE add_store(vm, dk,
                add_loop([metadata |-> vm.metadata, new_memories |-> <<>>,
                          merged |-> 0, skipped |-> 0, raised |-> FALSE],
                         vm.vecs, flattened, time))

\* One pass of search's loop.  acc is [metadata, results, raised].
search_hit(acc, vecs, e, idx, time) ==
    IF acc.raised THEN acc
    ELSE IF idx > Len(acc.metadata)
    THEN [acc EXCEPT !.raised = TRUE]                  \* IndexError
    ELSE LET similarity == _l2_to_similarity(L2(vecs[idx], e))
             mem == reinforce(acc.metadata[idx], similarity, time)
         IN [acc EXCEPT !.metadata[idx] = mem,
                        !.results = Append(@, [mem |-> mem,
                                               similarity |-> similarity,
                                               index |-> idx])]

RECURSIVE search_loop(_, _, _, _, _)
search_loop(acc, vecs, e, hits, time) ==
    IF hits = <<>> THEN acc
    ELSE search_loop(search_hit(acc, vecs, e, Head(hits), time),
                     vecs, e, Tail(hits), time)

SearchResult(vm, dk, results, raised) ==
    [vm |-> vm, disk |-> dk, results |-> results, raised |-> raised]

\* search without the closing _save_metadata
search_unsaved(vm, dk, query, top_k, embedOk, time) ==
    IF ~vm.hasIndex \/ vm.metadata = <<>> \/ ~embedOk
    THEN SearchResult(vm, dk, <<>>, FALSE)
    ELSE LET e == Embedding(query)
             acc == search_loop([metadata |-> vm.metadata, results |-> <<>>,
                                 raised |-> FALSE],
                                vm.vecs, e, index_search(vm.vecs, e, top_k), time)
             vm1 == [vm EXCEPT !.metadata = acc.metadata]
         IN IF acc.raised \/ ~can_write(dk)
            THEN SearchResult(vm1, dk, <<>>, TRUE)
            ELSE SearchResult(vm1, dk, acc.results, FALSE)

\* VectorManager.search(query, top_k)
search(vm, dk, query, top_k, embedOk, time) ==
    IF ~vm.hasIndex \/ vm.metadata = <<>> \/ ~embedOk
    THEN SearchResult(vm, dk, <<>>, FALSE)
    ELSE LET e == Embedding(query)
             acc == search_loop([metadata |-> vm.metadata, results |-> <<>>,
                                 raised |-> FALSE],
                                vm.vecs, e, index_search(vm.vecs, e, top_k), time)
             vm1 == [vm EXCEPT !.metadata = acc.metadata]
         IN IF acc.raised \/ ~can_write(dk)
            THEN SearchResult(vm1, dk, <<>>, TRUE)
            ELSE SearchResult(vm1, _save_metadata(vm1, dk), acc.results, FALSE)

\* VectorManager.get_memory_by_id(memory_id): the first record with the id
\* is reinforced with the default match score and the metadata is saved
get_memory_by_id(vm, dk, memory_id, time) ==
    LET found == {k \in 1..Len(vm.metadata) : vm.metadata[k].id = memory_id}
    IN IF found = {}
       THEN [vm |-> vm, disk |-> dk, found |-> FALSE, raised |-> FALSE,
             memory |-> <<>>]
       ELSE LET idx == CHOOSE k \in found : \A j \in found : k <= j
                vm1 == [vm EXCEPT !.metadata[idx] = reinforce(@, DefaultMatch, time)]
            IN IF can_write(dk)
               THEN [vm |-> vm1, disk |-> _save_metadata(vm1, dk),
                     found |-> TRUE, raised |-> FALSE,
                     memory |-> vm1.metadata[idx] @@ [index |-> idx]]
               ELSE [vm |-> vm1, disk |-> dk, found |-> FALSE, raised |-> TRUE,
                     memory |-> <<>>]

\* VectorManager.delete_all: forget the index and the metadata, remove both
\* files and the directory
vm_delete_all(dk) == [vm |-> EmptyVm, disk |-> EmptyDisk, ok |-> TRUE]

-----------------------------------------------------------------------------
(* GraphManager.  The graph is a record of bags, one per kind of node and  *)
(* of edge: User(id), Memory(id), Tag(name), Entity(name), HAS_MEMORY,     *)
(* BELONGS_TO_TAG, MENTIONS, HAS_ENTITY; a bag counts the nodes or edges   *)
(* with the same key.  Tag and Entity nodes are keyed by name alone.       *)

Owner == "u1"

EmptyGraph ==
    [users |-> EmptyBag, mems |-> EmptyBag, tags |-> EmptyBag, ents |-> EmptyBag,
     hasMemory |-> EmptyBag, belongs |-> EmptyBag, mentions |-> EmptyBag,
     hasEntity |-> EmptyBag]

\* Cypher MERGE of each element of S: created only where no match exists
MERGE(bag, S) == bag (+) SetToBag({x \in S : ~BagIn(x, bag)})

\* Cypher CREATE of each element of S
CREATE(bag, S) == bag (+) SetToBag(S)

\* DELETE of every node or edge of the bag whose key is not in keep
Keep(bag, keep) == [x \in BagToSet(bag) \cap keep |-> bag[x]]

get_existing_memory_ids(g, memory_ids) ==
    {id \in memory_ids : BagIn(id, g.mems)}

\* the memories with their non-empty entity names
Named(new_memories) ==
    {<<m, e>> \in new_memories \X UNION {m.entities : m \in new_memories} :
        e \in m.entities /\ e # ""}

\* store_memory_graph without the existing-id skip and with CREATE for MERGE
store_memory_graph_create(g, user_id, memories) ==
    LET new_memories == Range(memories)
        named == Named(new_memories)
    IN IF new_memories = {} THEN g
       ELSE [users |-> MERGE(g.users, {user_id}),
             mems |-> CREATE(g.mems, {m.id : m \in new_memories}),
             tags |-> MERGE(g.tags, {m.tag : m \in new_memories}),
             ents |-> MERGE(g.ents, {p[2] : p \in named}),
             hasMemory |-> CREATE(g.hasMemory, {<<user_id, m.id>> : m \in new_memories}),
             belongs |-> CREATE(g.belongs, {<<m.id, m.tag>> : m \in new_memories}),
             mentions |-> CREATE(g.mentions, {<<p[1].id, p[2]>> : p \in named}),
             hasEntity |-> CREATE(g.hasEntity, {<<user_id, p[2]>> : p \in named})]

store_memory_graph(g, user_id, memories) ==
    LET existing_ids == get_existing_memory_ids(g, {m.id : m \in Range(memories)})
        new_memories == {m \in Range(memories) : m.id \notin existing_ids}
        named == Named(new_memories)
    IN IF new_memories = {} THEN g
       ELSE [users |-> MERGE(g.users, {user_id}),
             mems |-> MERGE(g.mems, {m.id : m \in new_memories}),
             tags |-> MERGE(g.tags, {m.tag : m \in new_memories}),
             ents |-> MERGE(g.ents, {p[2] : p \in named}),
             hasMemory |-> MERGE(g.hasMemory, {<<user_id, m.id>> : m \in new_memories}),
             belongs |-> MERGE(g.belongs, {<<m.id, m.tag>> : m \in new_memories}),
             mentions |-> MERGE(g.mentions, {<<p[1].id, p[2]>> : p \in named}),
             hasEntity |-> MERGE(g.hasEntity, {<<user_id, p[2]>> : p \in named})]

\* both expansions; the LIMIT of 20 is never reached by the memories of one behaviour
get_related_memory_ids(g, memory_ids) ==
    LET mems == BagToSet(g.mems)
        by_entity == {r \in mems : \E m \in mems \cap memory_ids :
                         \E e \in BagToSet(g.ents) :
                          /\ BagIn(<<m, e>>, g.mentions)
                          /\ BagIn(<<r, e>>, g.mentions)
                          /\ r # m}
        by_tag == {r \in mems : \E m \in mems \cap memory_ids :
                         \E t \in BagToSet(g.tags) :
                          /\ BagIn(<<m, t>>, g.belongs)
                          /\ BagIn(<<r, t>>, g.belongs)
                          /\ r # m}
    IN IF memory_ids = {} THEN {} ELSE by_entity \cup by_tag

\* delete_all that removes every Tag and Entity instead of the orphans
graph_delete_all_labels(g, user_id) ==
    LET gone == {m \in BagToSet(g.mems) : BagIn(<<user_id, m>>, g.hasMemory)}
    IN [users |-> Keep(g.users, BagToSet(g.users) \ {user_id}),
        mems |-> Keep(g.mems, BagToSet(g.mems) \ gone),
        tags |-> EmptyBag,
        ents |-> EmptyBag,
        hasMemory |-> Keep(g.hasMemory, {p \in BagToSet(g.hasMemory) : p[2] \notin gone}),
        belongs |-> EmptyBag,
        mentions |-> EmptyBag,
        hasEntity |-> EmptyBag]

\* GraphManager.delete_all, its five statements in order: DETACH DELETE of
\* the owner's memories, DELETE of the owner's HAS_ENTITY edges, DELETE of
\* the Tags no memory belongs to, DELETE of the Entities nothing points at,
\* DELETE of the User node
graph_delete_all(g, user_id) ==
    LET gone == {m \in BagToSet(g.mems) : BagIn(<<user_id, m>>, g.hasMemory)}
        mems1 == Keep(g.mems, BagToSet(g.mems) \ gone)
        hasMemory1 == Keep(g.hasMemory, {p \in BagToSet(g.hasMemory) : p[2] \notin gone})
        belongs1 == Keep(g.belongs, {p \in BagToSet(g.belongs) : p[1] \notin gone})
        mentions1 == Keep(g.mentions, {p \in BagToSet(g.mentions) : p[1] \notin gone})
        hasEntity1 == Keep(g.hasEntity, {p \in BagToSet(g.hasEntity) : p[1] # user_id})
        tags1 == Keep(g.tags, {t \in BagToSet(g.tags) :
                                  \E p \in BagToSet(belongs1) : p[2] = t})
        ents1 == Keep(g.ents, {e \in BagToSet(g.ents) :
                                  \/ \E p \in BagToSet(mentions1) : p[2] = e
                                  \/ \E p \in BagToSet(hasEntity1) : p[2] = e})
    IN [users |-> Keep(g.users, BagToSet(g.users) \ {user_id}),
        mems |-> mems1, tags |-> tags1, ents |-> ents1,
        hasMemory |-> hasMemory1, belongs |-> belongs1,
        mentions |-> mentions1, hasEntity |-> hasEntity1]

-----------------------------------------------------------------------------
(* MemoryService.process_conversation.  extraction is what                 *)
(* _extract_memories gets from the agent: [raises, texts], an exception or *)
(* the summaries it extracted (<<>>: none).  embedOk and graphOk say       *)
(* whether the embedding provider and the graph backend answer.            *)

Extraction(raises, texts) == [raises |-> raises, texts |-> texts]

ProcessOutcome(extraction, res, graphOk) ==
    IF extraction.raises THEN "extract_raise"
    ELSE IF extraction.texts = <<>> THEN "extract_empty"
    ELSE IF ~res.embedded THEN "embed_fail"
    ELSE IF res.raised THEN "vector_raise"
    ELSE IF ~graphOk THEN "graph_fail"
    ELSE "stored"

\* _extract_memories: the agent's memories, {} when it raises
_extract_memories(extraction, firstId, time) ==
    IF extraction.raises THEN <<>>
    ELSE extract_memories(extraction.texts, firstId, time)

\* _store_vectors: add_memories, [] when it raises
_store_vectors(res) == IF res.raised THEN <<>> ELSE res.returned

\* _store_graph: store_memory_graph, any error swallowed
_store_graph(g, flattened_memories, graphOk) ==
    IF graphOk THEN store_memory_graph(g, Owner, flattened_memories) ELSE g

\* _store_tags: one user_tags row per new tag
_store_tags(tagset, tagged_memories) ==
    tagset \cup {m.tag : m \in Range(tagged_memories)}

\* the whole pipeline, as a record of what it leaves behind; handed is the
\* list _store_graph receives
process_conversation(extraction, embedOk, graphOk) ==
    LET tagged_memories == _extract_memories(extraction, nextId, now)
        res == add_memories(svc, disk, tagged_memories, embedOk, now)
        flattened_memories == _store_vectors(res)
    IN IF tagged_memories = <<>>
       THEN [svc |-> svc, disk |-> disk, graph |-> graph, tags |-> tags,
             nextId |-> nextId, handed |-> <<>>, res |-> res,
             outcome |-> ProcessOutcome(extraction, res, graphOk)]
       ELSE [svc |-> res.vm, disk |-> res.disk,
             graph |-> _store_graph(graph, flattened_memories, graphOk),
             tags |-> _store_tags(tags, tagged_memories),
             nextId |-> nextId + Len(tagged_memories),
             handed |-> flattened_memories, res |-> res,
             outcome |-> ProcessOutcome(extraction, res, graphOk)]

-----------------------------------------------------------------------------
(* MemoryRetriever.search_memories and get_memory_by_id, on its own        *)
(* VectorManager *)

\* dict.get(key, default)
Get(x, key, default) == IF key \in DOMAIN x THEN x[key] ELSE default

\* MemoryRetriever.get_memory_by_id's answer: a wrapper around the record
found_wrapper(memory) == [status |-> "found", memory |-> memory]

not_found_wrapper(memory_id) == [status |-> "not_found", message |-> memory_id]

\* what search returns for one hit: {**mem, "similarity", "index"}
hit_entry(x) == x.mem @@ [similarity |-> x.similarity, index |-> x.index]

\* STEP 3's loop: get_memory_by_id for every related id that is no vector
\* hit, appended to all_memories in the order the ids are iterated (here
\* ascending; the source iterates a list made from a set)
RECURSIVE fetch_related(_, _, _, _, _)
fetch_related(vm, dk, related, time, entries) ==
    IF related = {}
    THEN [vm |-> vm, disk |-> dk, raised |-> FALSE, entries |-> entries]
    ELSE LET r == CHOOSE x \in related : \A y \in related : x <= y
             got == get_memory_by_id(vm, dk, r, time)
         IN IF got.raised
            THEN [vm |-> got.vm, disk |-> got.disk, raised |-> TRUE,
                  entries |-> entries]
            ELSE fetch_related(got.vm, got.disk, related \ {r}, time,
                               Append(entries,
                                      IF got.found THEN found_wrapper(got.memory)
                                      ELSE not_found_wrapper(r)))

\* key=lambda x: x.get("score", 0) * x.get("importance", 1)
sort_key(x) == Get(x, "score", 0) * Get(x, "importance", Scale)

\* x put behind the entries of the sorted sequence whose key is not smaller
insert_by_key(sorted, x) ==
    LET n == Cardinality({k \in 1..Len(sorted) : sort_key(sorted[k]) >= sort_key(x)})
    IN SubSeq(sorted, 1, n) \o <<x>> \o SubSeq(sorted, n + 1, Len(sorted))

\* sorted(..., reverse=True): descending by key, entries of equal key in
\* their original order
RECURSIVE sorted_reverse(_)
sorted_reverse(s) ==
    IF s = <<>> THEN <<>>
    ELSE insert_by_key(sorted_reverse(SubSeq(s, 1, Len(s) - 1)), s[Len(s)])

\* the summaries of the entries that have a non-empty one, in order
summaries_of(said) == [k \in 1..Len(said) |-> said[k]["summary"]]

context_string(sorted_memories) ==
    summaries_of(SelectSeq(sorted_memories, LAMBDA m : Get(m, "summary", "") # ""))

NoAnswer(vm, dk) ==
    [vm |-> vm, disk |-> dk, context |-> <<>>, raised |-> TRUE,
     sorted_memories |-> <<>>, memory_ids |-> {}, related |-> {}]

Answer(vm, dk, sorted_memories, memory_ids, related_memories_ids) ==
    [vm |-> vm, disk |-> dk,
     context |-> context_string(sorted_memories),
     raised |-> FALSE,
     sorted_memories |-> sorted_memories,
     memory_ids |-> memory_ids,
     related |-> related_memories_ids]

\* STEP 4: sort all_memories and join the summaries
rank_and_join(fetched, memory_ids, related_memories_ids) ==
    IF fetched.raised THEN NoAnswer(fetched.vm, fetched.disk)
    ELSE Answer(fetched.vm, fetched.disk, sorted_reverse(fetched.entries),
                memory_ids, related_memories_ids)

hit_entries(hits) == [k \in 1..Len(hits) |-> hit_entry(hits[k])]

\* STEP 3: all_memories is the hits keyed by id, then the wrapper of every
\* related id that is no key yet
combine(similar_memories, memory_ids, related_memories_ids, time) ==
    rank_and_join(fetch_related(similar_memories.vm, similar_memories.disk,
                                related_memories_ids \ memory_ids, time,
                                hit_entries(similar_memories.results)),
                  memory_ids, related_memories_ids)

\* STEP 2: the graph's related ids of the hits; the call raises when the
\* graph backend does not answer (an empty id list never reaches it)
expand(similar_memories, memory_ids, g, graphOk, time) ==
    IF similar_memories.raised \/ (memory_ids # {} /\ ~graphOk)
    THEN NoAnswer(similar_memories.vm, similar_memories.disk)
    ELSE combine(similar_memories, memory_ids,
                 get_related_memory_ids(g, memory_ids), time)

hit_ids(hits) == {hits[k].mem.id : k \in 1..Len(hits)}

expand_hits(similar_memories, g, graphOk, time) ==
    expand(similar_memories, hit_ids(similar_memories.results), g, graphOk, time)

retriever_search_memories(vm, dk, g, user_message, top_k, embedOk, graphOk, time) ==
    expand_hits(search(vm, dk, user_message, top_k, embedOk, time), g, graphOk, time)

-----------------------------------------------------------------------------
(* The consolidation thread: run_ltm_task *)

TaskExtractions ==
    {Extraction(TRUE, <<>>), Extraction(FALSE, <<>>), Extraction(FALSE, <<"a0">>)}

\* await self.ltm.process_conversation(ltm_messages): every failure inside
\* is caught inside, so the thread always goes on to the trim
run_ltm_process(t, extraction, embedOk, graphOk) ==
    /\ tasks[t].pc = "process"
    /\ LET done == process_conversation(extraction, embedOk, graphOk)
       IN /\ svc' = done.svc
          /\ disk' = done.disk
          /\ graph' = done.graph
          /\ tags' = done.tags
          /\ nextId' = done.nextId
          /\ tasks' = [tasks EXCEPT ![t].pc = "clear", ![t].outcome = done.outcome]
    /\ UNCHANGED <<rows, clock, appended, ltmUp, lastCall, ret, now, steps>>

\* self.stm.clear_messages(self.user_id)
run_ltm_clear(t) ==
    /\ tasks[t].pc = "clear"
    /\ rows' = clear_messages(rows)
    /\ tasks' = [tasks EXCEPT ![t].pc = "save"]
    /\ UNCHANGED <<clock, appended, ltmUp, lastCall, now>>
    /\ UNCHANGED ltmVars

\* self.stm.save_messages(self.user_id, stm_messages): one insert per step
run_ltm_save(t) ==
    /\ tasks[t].pc = "save"
    /\ LET s == save_messages(rows, clock, <<tasks[t].stm_messages[tasks[t].i]>>)
       IN /\ rows' = s.rows
          /\ clock' = s.clock
    /\ tasks' = [tasks EXCEPT
                   ![t].i = @ + 1,
                   ![t].pc = IF tasks[t].i = Len(tasks[t].stm_messages)
                             THEN "done" ELSE "save"]
    /\ UNCHANGED <<appended, ltmUp, lastCall, now>>
    /\ UNCHANGED ltmVars

-----------------------------------------------------------------------------
(* The long-term service called directly.  A call names what the outside   *)
(* world does during it: what the agent extracts, and whether the          *)
(* embedding provider, the graph backend and the tag table answer.         *)

Batches == {<<"a0">>, <<"a100">>, <<"a101">>, <<"a200">>, <<"a202">>, <<"a101", "z">>}

ProcessCall(extraction, embedOk, graphOk) ==
    [extraction |-> extraction, embedOk |-> embedOk, graphOk |-> graphOk]

ProcessCalls ==
    {ProcessCall(Extraction(FALSE, b), TRUE, TRUE) : b \in Batches} \cup
    {ProcessCall(Extraction(TRUE, <<>>), TRUE, TRUE),
     ProcessCall(Extraction(FALSE, <<>>), TRUE, TRUE),
     ProcessCall(Extraction(FALSE, <<"a0">>), FALSE, TRUE),
     ProcessCall(Extraction(FALSE, <<"a101", "z">>), FALSE, TRUE),
     ProcessCall(Extraction(FALSE, <<"a0">>), TRUE, FALSE)}

SearchCall(query, top_k, embedOk, graphOk) ==
    [query |-> query, top_k |-> top_k, embedOk |-> embedOk, graphOk |-> graphOk]

SearchCalls ==
    {SearchCall("a0", 10, TRUE, TRUE), SearchCall("a0", 1, TRUE, TRUE),
     SearchCall("z", 1, TRUE, TRUE), SearchCall("a0", 10, FALSE, TRUE),
     SearchCall("a0", 10, TRUE, FALSE)}

call_process_conversation(c) ==
    /\ ltmUp
    /\ steps < MaxSteps
    /\ LET done == process_conversation(c.extraction, c.embedOk, c.graphOk)
       IN /\ svc' = done.svc
          /\ disk' = done.disk
          /\ graph' = done.graph
          /\ tags' = done.tags
          /\ nextId' = done.nextId
          /\ lastCall' = [NoCall EXCEPT
                            !.op = "process_conversation",
                            !.batch = c.extraction.texts,
                            !.embedOk = c.embedOk,
                            !.graphOk = c.graphOk,
                            !.raised = done.res.raised,
                            !.returned = [k \in 1..Len(done.res.returned) |->
                                              done.res.returned[k].id],
                            !.merged = done.res.merged,
                            !.skipped = done.res.skipped,
                            !.again = /\ lastCall.op = "process_conversation"
                                      /\ lastCall.batch = c.extraction.texts
                                      /\ lastCall.embedOk
                                      /\ ~lastCall.raised]
    /\ steps' = steps + 1
    /\ UNCHANGED <<rows, clock, tasks, appended, ltmUp, ret, now>>

\* MemoryManager.search_memories -> MemoryService -> MemoryRetriever
searched(c, done) ==
    /\ ret' = done.vm
    /\ disk' = done.disk
    /\ lastCall' = [NoCall EXCEPT !.op = "search_memories",
                                  !.batch = <<c.query>>,
                                  !.embedOk = c.embedOk,
                                  !.graphOk = c.graphOk,
                                  !.raised = done.raised,
                                  !.found = Len(done.context),
                                  !.context = done.context,
                                  !.sorted_memories = done.sorted_memories,
                                  !.ids = done.memory_ids,
                                  !.related = done.related]

search_memories(c) ==
    /\ ltmUp
    /\ steps < MaxSteps
    /\ searched(c, retriever_search_memories(ret, disk, graph, c.query, c.top_k,
                                             c.embedOk, c.graphOk, now))
    /\ steps' = steps + 1
    /\ UNCHANGED <<rows, clock, tasks, appended, ltmUp, svc, graph, tags, now, nextId>>

\* MemoryRetriever.get_memory_by_id
retriever_get_memory_by_id(memory_id) ==
    /\ ltmUp
    /\ steps < MaxSteps
    /\ LET got == get_memory_by_id(ret, disk, memory_id, now)
       IN /\ ret' = got.vm
          /\ disk' = got.disk
          /\ lastCall' = [NoCall EXCEPT !.op = "get_memory_by_id",
                                        !.raised = got.raised,
                                        !.found = IF got.found THEN 1 ELSE 0]
    /\ steps' = steps + 1
    /\ UNCHANGED <<rows, clock, tasks, appended, ltmUp, svc, graph, tags, now, nextId>>

\* GraphManager.delete_all's return value: True from the try block and True
\* from the except block
graph_delete_all_returns(graphOk) == IF graphOk THEN TRUE ELSE TRUE

\* TagManager.clear_tags raises: SupabaseService.clear_tags catches every
\* exception of the backend, so never
clear_tags_raises(tagOk) == IF tagOk THEN FALSE ELSE FALSE

Count(b) == IF b THEN 1 ELSE 0

\* MemoryService.delete_all: the three targets in turn, success_count
\* compared with total_operations = 3
ltm_delete_all(graphOk, tagOk) ==
    LET v == vm_delete_all(disk)
        success_count == Count(v.ok) + Count(graph_delete_all_returns(graphOk))
                             + Count(~clear_tags_raises(tagOk))
    IN [svc |-> v.vm, disk |-> v.disk,
        graph |-> IF graphOk THEN graph_delete_all(graph, Owner) ELSE graph,
        tags |-> IF tagOk THEN {} ELSE tags,
        ok |-> success_count = 3]

\* MemoryManager.delete_all's use of the service's answer: success_count
\* compared with total_operations (2, less 1 without a service)
deleted(done, graphOk, tagOk) ==
    /\ svc' = done.svc
    /\ disk' = done.disk
    /\ graph' = done.graph
    /\ tags' = done.tags
    /\ lastCall' = [NoCall EXCEPT !.op = "delete_all",
                                  !.graphOk = graphOk,
                                  !.tagOk = tagOk,
                                  !.ltmOk = done.ok,
                                  !.ok = (1 + Count(done.ok) = 2)]

\* MemoryManager.delete_all
delete_all(graphOk, tagOk) ==
    /\ steps < MaxSteps
    /\ rows' = clear_messages(rows)
    /\ IF ltmUp
       THEN deleted(ltm_delete_all(graphOk, tagOk), graphOk, tagOk)
       ELSE /\ UNCHANGED <<svc, disk, graph, tags>>
            /\ lastCall' = [NoCall EXCEPT !.op = "delete_all",
                                          !.graphOk = graphOk,
                                          !.tagOk = tagOk,
                                          !.ltmOk = FALSE,
                                          !.ok = (1 = 2 - 1)]
    /\ steps' = steps + 1
    /\ UNCHANGED <<clock, tasks, appended, ltmUp, ret, now, nextId>>

\* MemoryManager.get_messages' answer: the rows read and the context string,
\* ("", []) when the search raised
got_messages(stm_messages, done) ==
    /\ ret' = done.vm
    /\ disk' = done.disk
    /\ lastCall' = [NoCall EXCEPT !.op = "get_messages",
                                  !.returned = IF done.raised THEN <<>>
                                               ELSE Ids(stm_messages),
                                  !.context = done.context]

\* MemoryManager.get_messages(message): the buffer, then search_memories
manager_get_messages(message) ==
    /\ IF ltmUp
       THEN got_messages(get_messages(rows, ReadLimit),
                         retriever_search_memories(ret, disk, graph, message, 10,
                                                   TRUE, TRUE, now))
       ELSE /\ lastCall' = [NoCall EXCEPT !.op = "get_messages",
                                          !.returned = Ids(get_messages(rows, ReadLimit))]
            /\ UNCHANGED <<ret, disk>>
    /\ UNCHANGED <<rows, clock, tasks, appended, ltmUp, svc, graph, tags, now,
                   nextId, steps>>

\* A new process constructs its MemoryManager: both VectorManagers make the
\* directory and load what the files hold; the daemon threads of the old
\* process are gone.
restart ==
    /\ steps < MaxSteps
    /\ tasks = <<>>
    /\ disk' = makedirs(disk)
    /\ svc' = vm_init(disk)
    /\ ret' = vm_init(disk)
    /\ lastCall' = [NoCall EXCEPT !.op = "restart"]
    /\ steps' = steps + 1
    /\ UNCHANGED <<rows, clock, tasks, appended, ltmUp, graph, tags, now, nextId>>

\* Where the process can stop while add_memories persists a batch of new
\* records: after index.add and metadata.extend, after _save_index, after
\* _save_metadata.
StopPoints == {"extended", "saved_index", "saved_metadata"}

persist_until(vm, dk, point) ==
    IF point = "extended" THEN dk
    ELSE IF point = "saved_index" THEN _save_index(vm, dk)
    ELSE _save_metadata(vm, _save_index(vm, dk))

\* The process stops inside add_memories while it persists new records, and
\* the next process constructs its MemoryManager: _store_tags has run,
\* _store_graph has not, both VectorManagers load what the files hold.
stop_in_add_memories(c, point) ==
    /\ ltmUp
    /\ steps < MaxSteps
    /\ tasks = <<>>
    /\ ~c.extraction.raises
    /\ c.embedOk
    /\ can_write(disk)
    /\ LET tagged_memories == _extract_memories(c.extraction, nextId, now)
           res == add_memories(svc, disk, tagged_memories, c.embedOk, now)
       IN /\ ~res.raised
          /\ res.created # <<>>
          /\ disk' = persist_until(res.vm, disk, point)
          /\ tags' = _store_tags(tags, tagged_memories)
          /\ nextId' = nextId + Len(tagged_memories)
    /\ svc' = vm_init(disk')
    /\ ret' = vm_init(disk')
    /\ lastCall' = [NoCall EXCEPT !.op = "stopped", !.batch = c.extraction.texts]
    /\ steps' = steps + 1
    /\ UNCHANGED <<rows, clock, tasks, appended, ltmUp, graph, now>>

\* a day passes
tick ==
    /\ steps < MaxSteps
    /\ now' = now + 1
    /\ steps' = steps + 1
    /\ UNCHANGED <<rows, clock, tasks, appended, ltmUp, lastCall>>
    /\ UNCHANGED <<svc, ret, disk, graph, tags, nextId>>

-----------------------------------------------------------------------------
(* _update_importance and _update_confidence applied to one record with    *)
(* every flag value *)

ImportanceInputs == {0, 3000, Scale}

ConfidenceInputs == {0, 8000, Scale}

MatchInputs == {0, DefaultMatch, SimScale}

LastAccessedInputs == {0, 2}

NowInputs == {0, 1, 400}

apply_update_importance(recalled) ==
    /\ steps < MaxSteps
    /\ svc' = [svc EXCEPT !.metadata[1] = _update_importance(@, recalled, now)]
    /\ lastCall' = [NoCall EXCEPT !.op = "_update_importance"]
    /\ steps' = steps + 1
    /\ UNCHANGED <<rows, clock, tasks, appended, ltmUp, ret, disk, graph, tags,
                   now, nextId>>

apply_update_confidence(match_score, confirmed) ==
    /\ steps < MaxSteps
    /\ svc' = [svc EXCEPT
                 !.metadata[1] = _update_confidence(@, match_score, confirmed, now)]
    /\ lastCall' = [NoCall EXCEPT !.op = "_update_confidence"]
    /\ steps' = steps + 1
    /\ UNCHANGED <<rows, clock, tasks, appended, ltmUp, ret, disk, graph, tags,
                   now, nextId>>

\* the recall of one record as search, the merge of add_memories and
\* get_memory_by_id make it: _update_importance, then _update_confidence
apply_reinforce(match_score) ==
    /\ steps < MaxSteps
    /\ svc' = [svc EXCEPT !.metadata[1] = reinforce(@, match_score, now)]
    /\ lastCall' = [NoCall EXCEPT !.op = "reinforce"]
    /\ steps' = steps + 1
    /\ UNCHANGED <<rows, clock, tasks, appended, ltmUp, ret, disk, graph, tags,
                   now, nextId>>

-----------------------------------------------------------------------------
(* GraphManager called directly, for two owners *)

Owners == {"u1", "u2"}

GraphBatches == {<<"a0">>, <<"a202">>, <<"a0", "a100">>}

\* the records add_memories returns for fresh candidates
FlattenedOf(texts, ids, time) ==
    [k \in 1..Len(texts) |-> from_memory_item(MemoryItem(texts[k], ids[k], time))]

call_store_memory_graph(user_id, texts) ==
    /\ steps < MaxSteps
    /\ LET ids == [k \in 1..Len(texts) |-> nextId + k]
       IN /\ graph' = store_memory_graph(graph, user_id, FlattenedOf(texts, ids, now))
          /\ lastCall' = [NoCall EXCEPT !.op = "store_memory_graph",
                                        !.user = user_id,
                                        !.batch = texts,
                                        !.returned = ids]
    /\ nextId' = nextId + Len(texts)
    /\ steps' = steps + 1
    /\ UNCHANGED <<rows, clock, tasks, appended, ltmUp, svc, ret, disk, tags, now>>

\* store_memory_graph called again with the owner and the records of the
\* call before
repeat_store_memory_graph ==
    /\ steps < MaxSteps
    /\ lastCall.op = "store_memory_graph"
    /\ graph' = store_memory_graph(graph, lastCall.user,
                                   FlattenedOf(lastCall.batch, lastCall.returned, now))
    /\ lastCall' = [lastCall EXCEPT !.again = TRUE]
    /\ steps' = steps + 1
    /\ UNCHANGED <<rows, clock, tasks, appended, ltmUp, svc, ret, disk, tags, now,
                   nextId>>

call_get_related_memory_ids(memory_ids) ==
    /\ steps < MaxSteps
    /\ lastCall' = [NoCall EXCEPT !.op = "get_related_memory_ids",
                                  !.ids = memory_ids,
                                  !.related = get_related_memory_ids(graph, memory_ids)]
    /\ steps' = steps + 1
    /\ UNCHANGED <<rows, clock, tasks, appended, ltmUp, svc, ret, disk, graph, tags,
                   now, nextId>>

call_graph_delete_all(user_id) ==
    /\ steps < MaxSteps
    /\ graph' = graph_delete_all(graph, user_id)
    /\ lastCall' = [NoCall EXCEPT !.op = "graph_delete_all", !.user = user_id]
    /\ steps' = steps + 1
    /\ UNCHANGED <<rows, clock, tasks, appended, ltmUp, svc, ret, disk, tags, now,
                   nextId>>

-----------------------------------------------------------------------------
(* Specifications *)

InitLtm ==
    /\ svc = EmptyVm
    /\ ret = EmptyVm
    /\ disk = makedirs(EmptyDisk)
    /\ graph = EmptyGraph
    /\ tags = {}
    /\ now = 0
    /\ nextId = 0
    /\ steps = 0
    /\ lastCall = NoCall

InitStm ==
    /\ rows = <<>>
    /\ clock = 0
    /\ tasks = <<>>
    /\ appended = 0

\* the tiering controller: appends and consolidation threads
InitTier == InitStm /\ InitLtm /\ ltmUp \in BOOLEAN

NextTier ==
    \/ \E n \in 1..MaxBatch : add_messages(n)
    \/ \E t \in 1..Len(tasks) : \E x \in TaskExtractions : \E e, g \in BOOLEAN :
           run_ltm_process(t, x, e, g)
    \/ \E t \in 1..Len(tasks) : run_ltm_clear(t)
    \/ \E t \in 1..Len(tasks) : run_ltm_save(t)

SpecTier == InitTier /\ [][NextTier]_vars

\* the long-term service: consolidation pipeline, retrieval, bulk delete
InitStore == InitStm /\ InitLtm /\ ltmUp = TRUE

NextStore ==
    \/ \E c \in ProcessCalls : call_process_conversation(c)
    \/ \E c \in SearchCalls : search_memories(c)
    \/ \E id \in 1..nextId : retriever_get_memory_by_id(id)
    \/ \E g, t \in BOOLEAN : delete_all(g, t)
    \/ restart
    \/ tick

SpecStore == InitStore /\ [][NextStore]_vars

\* the vector store's files across processes that stop and start
NextPersist ==
    \/ \E c \in ProcessCalls : call_process_conversation(c)
    \/ \E c \in ProcessCalls : \E point \in StopPoints : stop_in_add_memories(c, point)
    \/ restart

SpecPersist == InitStore /\ [][NextPersist]_vars

\* one stored record, its importance, confidence and age drawn from the inputs
InitUpdate ==
    /\ InitStm
    /\ ltmUp = TRUE
    /\ \E imp \in ImportanceInputs : \E conf \in ConfidenceInputs :
       \E last \in LastAccessedInputs :
          svc = [hasIndex |-> TRUE, vecs |-> <<Embedding("a0")>>,
                 metadata |-> <<[from_memory_item(MemoryItem("a0", 1, last))
                                   EXCEPT !.importance = imp, !.confidence = conf]>>]
    /\ ret = EmptyVm
    /\ disk = makedirs(EmptyDisk)
    /\ graph = EmptyGraph
    /\ tags = {}
    /\ now \in NowInputs
    /\ nextId = 1
    /\ steps = 0
    /\ lastCall = NoCall

NextUpdate ==
    \/ \E recalled \in BOOLEAN : apply_update_importance(recalled)
    \/ \E m \in MatchInputs : \E confirmed \in BOOLEAN :
           apply_update_confidence(m, confirmed)
    \/ tick

SpecUpdate == InitUpdate /\ [][NextUpdate]_vars

\* the buffer as full as appends without a consolidation make it; the rows
\* of earlier behaviours carry the ids up to 0
BacklogLen == ConsolidateAt - 1

Backlog == [k \in 1..BacklogLen |-> [id |-> k - BacklogLen, ts |-> k]]

InitFull ==
    /\ InitLtm
    /\ ltmUp = TRUE
    /\ rows = Backlog
    /\ clock = BacklogLen
    /\ tasks = <<>>
    /\ appended = 0

\* what the agent extracts in the consolidations of a full buffer
FullExtraction == Extraction(FALSE, <<"a0">>)

\* appends, consolidation threads and readers over a full buffer
NextRace ==
    \/ \E n \in 1..MaxBatch : appended + n <= MaxLate /\ add_messages(n)
    \/ \E t \in 1..Len(tasks) : run_ltm_process(t, FullExtraction, TRUE, TRUE)
    \/ \E t \in 1..Len(tasks) : run_ltm_clear(t)
    \/ \E t \in 1..Len(tasks) : run_ltm_save(t)
    \/ lastCall.op # "get_messages" /\ manager_get_messages("a0")

SpecRace == InitFull /\ [][NextRace]_vars

\* the owner's data deleted beside the consolidation threads of a full buffer
NextWipe ==
    \/ \E n \in 1..MaxBatch : appended + n <= MaxLate /\ add_messages(n)
    \/ \E t \in 1..Len(tasks) : run_ltm_process(t, FullExtraction, TRUE, TRUE)
    \/ \E t \in 1..Len(tasks) : run_ltm_clear(t)
    \/ \E t \in 1..Len(tasks) : run_ltm_save(t)
    \/ lastCall.op # "delete_all" /\ delete_all(TRUE, TRUE)

SpecWipe == InitFull /\ [][NextWipe]_vars

\* batches with candidates near each other, over an empty and a filled store
DedupStores ==
    {ProcessCall(Extraction(FALSE, b), TRUE, TRUE) :
        b \in {<<"a200">>, <<"a202">>, <<"a200", "a202">>, <<"a0">>, <<"z">>,
               <<"a676", "a676">>}}

NextDedup ==
    \/ \E c \in DedupStores : call_process_conversation(c)
    \/ restart

SpecDedup == InitStore /\ [][NextDedup]_vars

\* one record recalled again and again as the days pass
NextReinforce ==
    \/ \E m \in MatchInputs : apply_reinforce(m)
    \/ tick

SpecReinforce == InitUpdate /\ [][NextReinforce]_vars

\* recall through the retriever: stores, a new process, searches
RecallStores ==
    {ProcessCall(Extraction(FALSE, b), TRUE, TRUE) :
        b \in {<<"a200">>, <<"a676">>, <<"a200", "a676">>, <<"a101", "z">>}}

RecallCalls ==
    {SearchCall("a200", 1, TRUE, TRUE), SearchCall("a200", 10, TRUE, TRUE),
     SearchCall("a676", 10, TRUE, TRUE)}

NextRecall ==
    \/ \E c \in RecallStores : call_process_conversation(c)
    \/ \E c \in RecallCalls : search_memories(c)
    \/ restart

SpecRecall == InitStore /\ [][NextRecall]_vars

\* the graph shared by two owners
NextGraph ==
    \/ \E u \in Owners : \E b \in GraphBatches : call_store_memory_graph(u, b)
    \/ repeat_store_memory_graph
    \/ \E ids \in SUBSET BagToSet(graph.mems) : call_get_related_memory_ids(ids)
    \/ \E u \in Owners : call_graph_delete_all(u)

SpecGraph == InitStore /\ [][NextGraph]_vars

-----------------------------------------------------------------------------
(* Properties of the tiering controller (SpecTier) *)

Upto(a, b) == [k \in 1..(b - a + 1) |-> a + k - 1]

Buffer == Ids(get_messages(rows, ReadLimit))

\* every consolidation thread has ended, and each of them failed
AllFailed ==
    /\ tasks # <<>>
    /\ \A t \in 1..Len(tasks) : tasks[t].pc = "done" /\ tasks[t].outcome # "stored"

C2_BufferUntouchedOnFailure ==
    (AllFailed /\ Len(tasks) = 1 /\ appended = tasks[1].startAppended)
        => rows = tasks[1].startRows

\* C3 as stated: after failed consolidations every message appended so far,
\* the triggering one included, can be read from the buffer.
C3_NoMessageLostOnFailure ==
    AllFailed => \A k \in 1..appended : \E p \in 1..Len(Buffer) : Buffer[p] = k

\* C4: the call that starts a consolidation returns without raising while the
\* thread has not run a step and has no outcome, and no later step of a
\* thread changes what any caller of add_messages was given.
C4_FireAndForget ==
    [][/\ Len(tasks') > Len(tasks) =>
            /\ lastCall'.op = "add_messages"
            /\ lastCall'.started = 1
            /\ ~lastCall'.raised
            /\ tasks'[Len(tasks')].pc = "process"
            /\ tasks'[Len(tasks')].outcome = "none"
       /\ (Len(tasks') = Len(tasks) /\ tasks' # tasks) => lastCall' = lastCall
      ]_vars

C4_FailedAfterReturn ==
    /\ lastCall.op = "add_messages"
    /\ lastCall.started = 1
    /\ ~lastCall.raised
    /\ Len(tasks) = 1
    /\ tasks[1].pc = "done"
    /\ tasks[1].outcome = "graph_fail"

-----------------------------------------------------------------------------
(* Properties of the long-term store (SpecStore) *)

\* what add_memories computes for a candidate summary against the index
\* as it is when the call starts
NearestTo(vecs, t) == index_search(vecs, Embedding(t), 1)

SimilarityTo(vecs, t) ==
    IF NearestTo(vecs, t) = <<>> THEN 0
    ELSE _l2_to_similarity(L2(vecs[NearestTo(vecs, t)[1]], Embedding(t)))

\* the candidates of a call (unprimed: taken when the call starts)
CandidatesOf(c) == _extract_memories(c.extraction, nextId, now)

DuplicatesOf(c) ==
    {k \in 1..Len(CandidatesOf(c)) :
        /\ svc.metadata # <<>>
        /\ SimilarityTo(svc.vecs, CandidatesOf(c)[k].summary) >= DuplicateThreshold}

MergersOf(c) ==
    {k \in 1..Len(CandidatesOf(c)) :
        /\ svc.metadata # <<>>
        /\ SimilarityTo(svc.vecs, CandidatesOf(c)[k].summary) >= MergeThreshold
        /\ SimilarityTo(svc.vecs, CandidatesOf(c)[k].summary) < DuplicateThreshold}

TargetOf(c, k) == NearestTo(svc.vecs, CandidatesOf(c)[k].summary)[1]

\* the records a merging candidate of the call is matched with
TouchedBy(c) == {TargetOf(c, k) : k \in MergersOf(c)}

StoredIds(vm) == {vm.metadata[p].id : p \in 1..Len(vm.metadata)}

\* the step is process_conversation called with c (the call the step
\* recorded is compared first)
process_step(c) ==
    /\ lastCall'.op = "process_conversation"
    /\ lastCall'.batch = c.extraction.texts
    /\ lastCall'.embedOk = c.embedOk
    /\ lastCall'.graphOk = c.graphOk
    /\ call_process_conversation(c)

\* the step is the retriever's search_memories called with c
search_step(c) ==
    /\ lastCall'.op = "search_memories"
    /\ lastCall'.batch = <<c.query>>
    /\ lastCall'.embedOk = c.embedOk
    /\ lastCall'.graphOk = c.graphOk
    /\ search_memories(c)

\* C5: a candidate at or above the duplicate threshold creates no record,
\* and the record it is nearest to, like every record no merging candidate
\* of the same call is matched with, keeps all its fields; a call whose
\* candidates are all duplicates leaves index and metadata as they were.
C5_DuplicateDiscarded ==
    [][\A c \in ProcessCalls :
          (process_step(c) /\ c.embedOk) =>
              /\ \A k \in DuplicatesOf(c) :
                    /\ CandidatesOf(c)[k].id \notin StoredIds(svc')
                    /\ (TargetOf(c, k) \notin TouchedBy(c)
                        /\ TargetOf(c, k) <= Len(svc.metadata))
                         => svc'.metadata[TargetOf(c, k)] = svc.metadata[TargetOf(c, k)]
              /\ (DuplicatesOf(c) # {} /\ DuplicatesOf(c) = 1..Len(CandidatesOf(c)))
                    => /\ svc'.metadata = svc.metadata
                       /\ svc'.vecs = svc.vecs
                       /\ lastCall'.skipped = Len(CandidatesOf(c))
      ]_vars

\* a candidate at exactly 0.90 of the only stored record was skipped
C5_BoundarySkipped ==
    /\ lastCall.op = "process_conversation"
    /\ lastCall.batch = <<"a100">>
    /\ lastCall.skipped = 1
    /\ Len(svc.metadata) = 1
    /\ svc.metadata[1].summary = "a0"
    /\ SimilarityTo(svc.vecs, "a100") = DuplicateThreshold

\* C6: a candidate at or above the merge threshold and below the duplicate
\* threshold creates no record; the record it is matched with is reinforced
\* as a recall with the similarity as match score and gets the union of both
\* entity sets; records no merging candidate is matched with are unchanged.
C6_MergeReinforces ==
    [][\A c \in ProcessCalls :
          (process_step(c) /\ c.embedOk /\ ~lastCall'.raised) =>
              /\ \A k \in MergersOf(c) :
                    /\ CandidatesOf(c)[k].id \notin StoredIds(svc')
                    /\ (\A j \in MergersOf(c) \ {k} : TargetOf(c, j) # TargetOf(c, k))
                         => svc'.metadata[TargetOf(c, k)] =
                               [reinforce(svc.metadata[TargetOf(c, k)],
                                          SimilarityTo(svc.vecs, CandidatesOf(c)[k].summary),
                                          now)
                                EXCEPT !.entities = svc.metadata[TargetOf(c, k)].entities
                                                      \cup CandidatesOf(c)[k].entities]
              /\ \A p \in 1..Len(svc.metadata) :
                    p \notin TouchedBy(c) => svc'.metadata[p] = svc.metadata[p]
      ]_vars

\* "a0" was merged into "a101" while "z" was stored beside it
C6_Merged ==
    /\ lastCall.op = "process_conversation"
    /\ lastCall.batch = <<"a0">>
    /\ lastCall.merged = 1
    /\ Len(svc.metadata) = 2
    /\ svc.metadata[1].summary = "a101"
    /\ svc.metadata[1].entities = {"jazz", "music"}
    /\ svc.metadata[2] = from_memory_item(MemoryItem("z", svc.metadata[2].id,
                                                    svc.metadata[2].last_accessed))

\* the candidates of the call that are neither duplicates nor merged
FreshOf(c) ==
    {CandidatesOf(c)[k].id :
        k \in (1..Len(CandidatesOf(c))) \ (DuplicatesOf(c) \cup MergersOf(c))}

\* the records the call appended to the metadata
CreatedIds == {svc'.metadata[p].id : p \in (Len(svc.metadata) + 1)..Len(svc'.metadata)}

\* C7: when add_memories returns, the returned records are exactly the
\* records the call appended, which are exactly the candidates that were
\* neither duplicates nor merged, and process_conversation mirrors exactly
\* those into the graph (none of them when the graph write fails).
C7_ReturnsCreated ==
    [][\A c \in ProcessCalls :
          (process_step(c) /\ ~lastCall'.raised) =>
              /\ Range(lastCall'.returned) = CreatedIds
              /\ Len(lastCall'.returned) = Len(svc'.metadata) - Len(svc.metadata)
              /\ c.embedOk => Range(lastCall'.returned) = FreshOf(c)
              /\ BagToSet(graph'.mems) = BagToSet(graph.mems) \cup
                     (IF c.graphOk THEN Range(lastCall'.returned) ELSE {})
              /\ c.graphOk => \A id \in Range(lastCall'.returned) :
                                  BagIn(<<Owner, id>>, graph'.hasMemory)
      ]_vars

\* of two candidates one was merged or skipped and the other was created,
\* returned and mirrored
C7_OneOfTwoReturned ==
    /\ lastCall.op = "process_conversation"
    /\ ~lastCall.raised
    /\ Len(lastCall.batch) = 2
    /\ Len(lastCall.returned) = 1
    /\ lastCall.merged + lastCall.skipped = 1
    /\ lastCall.returned[1] \in StoredIds(svc)
    /\ BagIn(lastCall.returned[1], graph.mems)

\* the call repeats the call before it: same candidates, both embedded,
\* neither raised
Repeats(c) ==
    /\ process_step(c)
    /\ lastCall.op = "process_conversation"
    /\ lastCall.batch = c.extraction.texts
    /\ c.extraction.texts # <<>>
    /\ lastCall.embedOk /\ c.embedOk
    /\ ~lastCall.raised /\ ~lastCall'.raised

\* C8 as stated: the second of two identical calls leaves the record count
\* as it is, creates no record and classifies every candidate as a duplicate.
C8_SecondAllDuplicates ==
    [][\A c \in ProcessCalls :
          Repeats(c) =>
              /\ Len(svc'.metadata) = Len(svc.metadata)
              /\ lastCall'.returned = <<>>
              /\ lastCall'.skipped = Len(c.extraction.texts)
      ]_vars

\* C8, amended: the second of two identical calls leaves the record count
\* as it is and creates no record; each candidate is classified as a
\* duplicate or, when the first call merged it, merged again.
C8_SecondCreatesNothing ==
    [][\A c \in ProcessCalls :
          Repeats(c) =>
              /\ Len(svc'.metadata) = Len(svc.metadata)
              /\ svc'.vecs = svc.vecs
              /\ lastCall'.returned = <<>>
              /\ lastCall'.skipped + lastCall'.merged = Len(c.extraction.texts)
              /\ lastCall'.merged <= lastCall.merged
      ]_vars

\* a repeated call whose candidate was merged the second time too
C8_MergedAgain ==
    /\ lastCall.op = "process_conversation"
    /\ lastCall.again
    /\ lastCall.merged = 1
    /\ lastCall.skipped = 0
    /\ lastCall.returned = <<>>

\* C9: when the embedding provider fails, process_conversation's
\* add_memories returns nothing and leaves the VectorManager, both files and
\* the graph as they were; a search returns nothing and leaves the
\* retriever's VectorManager and both files as they were.
C9_EmbeddingFailure ==
    [][/\ \A c \in ProcessCalls :
             (process_step(c) /\ ~c.embedOk) =>
                 /\ svc' = svc
                 /\ disk' = disk
                 /\ graph' = graph
                 /\ lastCall'.returned = <<>>
                 /\ ~lastCall'.raised
       /\ \A c \in SearchCalls :
             (search_step(c) /\ ~c.embedOk) =>
                 /\ ret' = ret
                 /\ disk' = disk
                 /\ lastCall'.found = 0
                 /\ ~lastCall'.raised
      ]_vars

\* a batch of two was aborted over a store that holds records
C9_Aborted ==
    /\ lastCall.op = "process_conversation"
    /\ ~lastCall.embedOk
    /\ lastCall.batch = <<"a101", "z">>
    /\ lastCall.returned = <<>>
    /\ Len(svc.metadata) >= 1
    /\ disk.hasMeta /\ disk.meta = svc.metadata

\* the two files of the owner's directory, an absent file holding nothing
PersistedIndex == IF disk.hasIndex THEN disk.index ELSE <<>>

PersistedMetadata == IF disk.hasMeta THEN disk.meta ELSE <<>>

\* C10 as stated: the persisted index and the persisted metadata hold the
\* same number of entries, and entry p of the index is the embedding of
\* record p of the metadata.
C10_FilesAligned ==
    /\ Len(PersistedIndex) = Len(PersistedMetadata)
    /\ \A p \in 1..Len(PersistedIndex) :
          p <= Len(PersistedMetadata) =>
              PersistedIndex[p] = Embedding(PersistedMetadata[p].summary)

-----------------------------------------------------------------------------
(* Properties of the persisted files (SpecPersist) *)

\* C11 as stated: when the process stops while add_memories persists a batch
\* of new records, the next load sees the batch in both the index and the
\* metadata or in neither.
C11_AtomicPersist ==
    [][\A c \in ProcessCalls : \A point \in StopPoints :
          stop_in_add_memories(c, point) =>
              \/ /\ Len(svc'.vecs) = Len(svc.vecs)
                 /\ Len(svc'.metadata) = Len(svc.metadata)
              \/ /\ Len(svc'.vecs) = Len(svc.vecs) + Cardinality(FreshOf(c))
                 /\ Len(svc'.metadata) = Len(svc.metadata) + Cardinality(FreshOf(c))
      ]_vars

\* C12 as stated: a VectorManager constructed while only one of the two
\* files exists starts with no index and no metadata.
C12_BothOrNeither ==
    (lastCall.op \in {"restart", "stopped"} /\ disk.hasIndex # disk.hasMeta)
        => svc = EmptyVm /\ ret = EmptyVm

-----------------------------------------------------------------------------
(* Properties of retrieval (SpecStore) *)

\* the positions FAISS hands to search for a call
HitsOf(c) == Range(index_search(ret.vecs, Embedding(c.query), c.top_k))

\* C13: wherever the retriever's VectorManager holds records, a search that
\* returns reinforces exactly the records at the positions FAISS returned,
\* each as a recall with its own similarity as match score, returns those
\* records, writes the metadata file, and leaves every other record, the
\* number of records and the index as they were.
C13_SearchFrame ==
    \A c \in SearchCalls :
        LET r == search(ret, disk, c.query, c.top_k, c.embedOk, now)
        IN (c.embedOk /\ ret.hasIndex /\ ret.metadata # <<>> /\ ~r.raised) =>
              /\ Len(r.vm.metadata) = Len(ret.metadata)
              /\ r.vm.vecs = ret.vecs
              /\ {x.index : x \in Range(r.results)} = HitsOf(c)
              /\ \A x \in Range(r.results) : x.mem = r.vm.metadata[x.index]
              /\ \A p \in 1..Len(ret.metadata) :
                    r.vm.metadata[p] =
                        IF p \in HitsOf(c)
                        THEN reinforce(ret.metadata[p],
                                       _l2_to_similarity(
                                           L2(ret.vecs[p], Embedding(c.query))),
                                       now)
                        ELSE ret.metadata[p]
              /\ r.disk.hasMeta
              /\ r.disk.meta = r.vm.metadata

\* a search with top_k = 1 over two records returned and reinforced the
\* nearer one and left the other as it was stored
C13_OneOfTwoRecalled ==
    /\ lastCall.op = "search_memories"
    /\ lastCall.batch = <<"a0">>
    /\ ~lastCall.raised
    /\ lastCall.found = 1
    /\ Len(ret.metadata) = 2
    /\ ret.metadata[1].summary = "a101"
    /\ ret.metadata[1].importance > ImportanceOf("a101")
    /\ ret.metadata[2] = from_memory_item(MemoryItem("z", ret.metadata[2].id,
                                                    ret.metadata[2].last_accessed))
    /\ disk.meta = ret.metadata

-----------------------------------------------------------------------------
(* Properties of the reinforcement model (SpecUpdate) *)

\* C14: whatever the record's importance, confidence and age, the match
\* score and the flag, the importance _update_importance writes and the
\* confidence _update_confidence writes lie in [0.05, 0.98].
C14_Clamped ==
    /\ lastCall.op = "_update_importance" =>
          /\ svc.metadata[1].importance >= ClampLow
          /\ svc.metadata[1].importance <= ClampHigh
    /\ lastCall.op = "_update_confidence" =>
          /\ svc.metadata[1].confidence >= ClampLow
          /\ svc.metadata[1].confidence <= ClampHigh

\* an importance that decayed to the lower limit beside a confidence at the
\* upper limit
C14_AtBothLimits ==
    /\ lastCall.op = "_update_importance"
    /\ svc.metadata[1].importance = ClampLow
    /\ svc.metadata[1].confidence = ClampHigh

-----------------------------------------------------------------------------
(* Properties of the graph (SpecGraph) *)

GraphFields ==
    {"users", "mems", "tags", "ents", "hasMemory", "belongs", "mentions", "hasEntity"}

\* no node and no edge exists twice
NoDuplicates(g) ==
    \A f \in GraphFields : \A x \in BagToSet(g[f]) : CopiesIn(x, g[f]) = 1

\* the memories an owner has a HAS_MEMORY edge to
MemoriesOf(g, u) == {m \in BagToSet(g.mems) : BagIn(<<u, m>>, g.hasMemory)}

\* C15: store_memory_graph called a second time with the same owner and
\* records leaves the graph as the first call left it, and no node or edge
\* exists twice.
C15_GraphIdempotent ==
    [][repeat_store_memory_graph => graph' = graph /\ NoDuplicates(graph')]_vars

\* two records of one owner were stored twice
C15_StoredTwice ==
    /\ lastCall.op = "store_memory_graph"
    /\ lastCall.again
    /\ Len(lastCall.returned) = 2
    /\ \A k \in 1..2 : BagIn(<<lastCall.user, lastCall.returned[k]>>, graph.hasMemory)
    /\ BagIn(<<lastCall.returned[2], "jazz">>, graph.mentions)

\* C16 as stated: no id of the input list is among the ids
\* get_related_memory_ids returns.
C16_InputsExcluded ==
    lastCall.op = "get_related_memory_ids" => lastCall.related \cap lastCall.ids = {}

\* C17: after delete_all(owner) the owner has no User node, no memory and no
\* HAS_ENTITY edge; no Tag is left without a BELONGS_TO_TAG edge and no
\* Entity without a MENTIONS or HAS_ENTITY edge; every node and edge of the
\* other owners is kept, with the Tags and Entities their memories point at.
C17_OrphanCleanup ==
    [][\A u \in Owners :
          call_graph_delete_all(u) =>
              /\ ~BagIn(u, graph'.users)
              /\ \A m \in MemoriesOf(graph, u) : ~BagIn(m, graph'.mems)
              /\ \A p \in BagToSet(graph'.hasMemory) : p[1] # u
              /\ \A p \in BagToSet(graph'.hasEntity) : p[1] # u
              /\ \A p \in BagToSet(graph'.belongs) \cup BagToSet(graph'.mentions) :
                    BagIn(p[1], graph'.mems)
              /\ \A t \in BagToSet(graph'.tags) :
                    \E p \in BagToSet(graph'.belongs) : p[2] = t
              /\ \A e \in BagToSet(graph'.ents) :
                    \/ \E p \in BagToSet(graph'.mentions) : p[2] = e
                    \/ \E p \in BagToSet(graph'.hasEntity) : p[2] = e
              /\ \A v \in BagToSet(graph.users) \ {u} :
                    /\ CopiesIn(v, graph'.users) = CopiesIn(v, graph.users)
                    /\ \A m \in MemoriesOf(graph, v) \ MemoriesOf(graph, u) :
                          /\ CopiesIn(m, graph'.mems) = CopiesIn(m, graph.mems)
                          /\ BagIn(<<v, m>>, graph'.hasMemory)
                          /\ \A p \in BagToSet(graph.belongs) \cup BagToSet(graph.mentions) :
                                p[1] = m =>
                                    /\ BagIn(p, graph'.belongs) \/ BagIn(p, graph'.mentions)
                                    /\ BagIn(p[2], graph'.tags) \/ BagIn(p[2], graph'.ents)
                    /\ \A p \in BagToSet(graph.hasEntity) :
                          p[1] = v => BagIn(p, graph'.hasEntity) /\ BagIn(p[2], graph'.ents)
      ]_vars

\* one owner was deleted: its memory and its own tag are gone, the entity it
\* shared with the other owner's memory is kept
C17_SharedKept ==
    /\ lastCall.op = "graph_delete_all"
    /\ lastCall.user = "u1"
    /\ nextId = 2
    /\ BagToSet(graph.users) = {"u2"}
    /\ Cardinality(BagToSet(graph.mems)) = 1
    /\ BagToSet(graph.tags) = {"pref"}
    /\ BagToSet(graph.ents) = {"jazz"}

\* C18 as stated: get_related_memory_ids called with memories of one owner
\* returns only memories of that owner.
C18_SameOwner ==
    lastCall.op = "get_related_memory_ids" =>
        \A u \in Owners :
            (lastCall.ids # {} /\ lastCall.ids \subseteq MemoriesOf(graph, u))
                => lastCall.related \subseteq MemoriesOf(graph, u)

-----------------------------------------------------------------------------
(* Properties of the retriever's context string (SpecRecall) *)

\* the summary the retriever's store holds under an id, "" when it holds none
StoredSummary(memory_id) ==
    LET at == {k \in 1..Len(ret.metadata) : ret.metadata[k].id = memory_id}
    IN IF at = {} THEN "" ELSE ret.metadata[CHOOSE k \in at : TRUE].summary

\* the entries of the last search whose summary is in the context string
Said == SelectSeq(lastCall.sorted_memories, LAMBDA m : Get(m, "summary", "") # "")

\* C19 as stated: a search returns, and the summary of every related id
\* that is no vector hit and that the store holds with a non-empty summary
\* is in the context string.
C19_RelatedContribute ==
    lastCall.op = "search_memories" =>
        /\ ~lastCall.raised
        /\ \A r \in lastCall.related \ lastCall.ids :
              StoredSummary(r) # "" => StoredSummary(r) \in Range(lastCall.context)

\* C20 as stated: the summaries of the context string stand in
\* non-increasing order of similarity times importance of their records.
C20_RankedByProduct ==
    lastCall.op = "search_memories" =>
        \A k \in 1..(Len(Said) - 1) :
            Said[k]["similarity"] * Said[k]["importance"]
                >= Said[k + 1]["similarity"] * Said[k + 1]["importance"]

-----------------------------------------------------------------------------
(* Properties of delete_all and of the entry points (SpecStore) *)

\* C21 as stated: MemoryService.delete_all clears the tag table whenever the
\* tag backend answers, whatever the graph backend did, and returns True
\* only when the graph backend and the tag backend both answered.
C21_TrueOnlyIfAllSucceeded ==
    (lastCall.op = "delete_all" /\ ltmUp) =>
        /\ lastCall.tagOk => tags = {}
        /\ lastCall.ltmOk => (lastCall.graphOk /\ lastCall.tagOk)

\* the public entry points of MemoryManager
EntryPoints ==
    {"add_messages", "get_messages", "search_memories", "export_to_excel", "delete_all"}

\* C22 as stated: no call of a public entry point of MemoryManager ends
\* with an exception at its caller.
C22_NoExceptionEscapes ==
    lastCall.op \in EntryPoints => ~lastCall.raised

\* the summaries of the records the service's VectorManager holds
Accepted == {svc.metadata[k].summary : k \in 1..Len(svc.metadata)}

\* C23 as stated: when the embedding provider and the graph backend answer,
\* a search whose query is the summary of a record add_memories accepted
\* returns a context string that contains that summary.
C23_AcceptedIsFound ==
    (/\ lastCall.op = "search_memories"
     /\ lastCall.embedOk
     /\ lastCall.graphOk
     /\ lastCall.batch[1] \in Accepted)
        => lastCall.batch[1] \in Range(lastCall.context)

-----------------------------------------------------------------------------
(* Properties of a recall (SpecReinforce) *)

\* C24 as stated: the confidence a recall writes is the confidence
\* _update_confidence computes from the record as it was before the recall,
\* that is, decayed over the days since its last_accessed and then moved by
\* the match score.
C24_ConfidenceDecays ==
    [][\A m \in MatchInputs :
          apply_reinforce(m) =>
              svc'.metadata[1].confidence
                  = _update_confidence(svc.metadata[1], m, TRUE, now).confidence
      ]_vars

-----------------------------------------------------------------------------
(* Properties of appends beside consolidation threads (SpecRace) *)

\* C25 as stated: when add_messages starts a consolidation, every message
\* of the combined list is among the messages handed to the consolidation
\* or among the messages the trim will retain.
C25_NoneDropped ==
    [][\A n \in 1..MaxBatch :
          (add_messages(n) /\ Len(tasks') > Len(tasks)) =>
              Range(Ids(get_messages(rows, ReadLimit) \o NewMessages(n)))
                  \subseteq (Range(Ids(tasks'[Len(tasks')].ltm_messages))
                                \cup Range(Ids(tasks'[Len(tasks')].stm_messages)))
      ]_vars

AllDone == \A t \in 1..Len(tasks) : tasks[t].pc = "done"

\* C26 as stated: when a second consolidation was started while the first
\* was in flight and both have finished, the message that started the first
\* and the message appended after it are in the buffer.
C26_LateMessageKept ==
    (Len(tasks) >= 2 /\ AllDone) =>
        \A t \in 1..Len(tasks) : tasks[t].startAppended \in Range(Ids(rows))

\* C27 as stated: no message is in the buffer twice.
C27_NoRowTwice ==
    \A i, j \in 1..Len(rows) : rows[i].id = rows[j].id => i = j

\* C28 as stated: beside one consolidation, with no append since it was
\* started, get_messages returns the buffer as it was before the trim or
\* the retained tail.
C28_TrimLooksAtomic ==
    (/\ lastCall.op = "get_messages"
     /\ Len(tasks) = 1
     /\ appended = tasks[1].startAppended)
        => \/ lastCall.returned = Ids(tasks[1].startRows)
           \/ lastCall.returned = Ids(tasks[1].stm_messages)

-----------------------------------------------------------------------------
(* Properties of the store's contents (SpecDedup) *)

\* C29 as stated: no two records of the VectorManager have embeddings
\* whose similarity is at or above the duplicate threshold.
C29_Deduplicated ==
    \A i, j \in 1..Len(svc.vecs) :
        i # j => _l2_to_similarity(L2(svc.vecs[i], svc.vecs[j])) < DuplicateThreshold

-----------------------------------------------------------------------------
(* Properties of deletion beside consolidation (SpecWipe) *)

\* C30 as stated: once MemoryManager.delete_all has completed and no message
\* has been appended since, the owner's buffer, records and tags are empty,
\* whatever consolidation was in flight when it ran.
C30_StaysEmpty ==
    lastCall.op = "delete_all" =>
        /\ rows = <<>>
        /\ svc.metadata = <<>>
        /\ tags = {}

=============================================================================
